---- MODULE Spec2Model ----
(***************************************************************************)
(* PawPalace server (src/index.js): the vaccination reminder pass          *)
(* (sendVaccinationReminders), its triggers, the mail helper, the          *)
(* vaccination normaliser (dedupeVaccinationsArray) and the adoption       *)
(* endpoints.                                                              *)
(*                                                                         *)
(* JavaScript strings are sequences of one-character strings, so that      *)
(* trim(), toLowerCase(), Date parsing, toISOString() and the string       *)
(* comparisons of the source are modelled by what they compute.            *)
(* A time value is a whole number of days since 1970-01-01 (UTC); the      *)
(* time of day of `new Date()` is carried unchanged through setDate() and  *)
(* cut off by toISOString().split('T')[0], so it is left out.  The server  *)
(* clock is taken to run in UTC, where setDate(getDate() + n) adds n days. *)
(***************************************************************************)
EXTENDS Integers, Sequences, FiniteSets, TLC

VARIABLES
    today,       \* the day `new Date()` falls on (days since 1970-01-01, UTC)
    pets,        \* petCollection: sequence of pet documents
    adoptions,   \* adoptionCollection (adoptionRequest): sequence of documents
    purchases,   \* purchasesCollection: sequence of documents
    passes,      \* the invocations of sendVaccinationReminders, in start order
    reqBody,     \* req.body.vaccinations of a PATCH /pet/:id/vaccinations request
    resSent,     \* whether that request has been answered
    accepts,     \* the PUT /adoption/accept/:id requests, in arrival order
    inserted     \* how many documents adoptionCollection.insertOne has stored

vars == <<today, pets, adoptions, purchases, passes, reqBody, resSent,
          accepts, inserted>>

----------------------------------------------------------------------------
(* JavaScript values: null/undefined, or a string.                         *)

Null == [t |-> "null", s |-> <<>>]

Str(s) == [t |-> "str", s |-> s]

\* !x for a value that is null, undefined or a string
Falsy(x) == x.t = "null" \/ x.s = <<>>

\* String(x) for a value that passed the truthiness test
String(x) == x.s

----------------------------------------------------------------------------
(* Characters, in code-unit order (the part of ASCII the model uses).      *)

CodeOrder ==
    <<"\t", " ", "&", "(", ")", "-", "/",
      "0","1","2","3","4","5","6","7","8","9",
      "A","B","C","D","E","F","G","H","I","J","K","L","M","N","O","P","Q","R","S","T","U","V","W","X","Y","Z",
      "a","b","c","d","e","f","g","h","i","j","k","l","m","n","o","p","q","r","s","t","u","v","w","x","y","z">>

Upper ==
    <<"A","B","C","D","E","F","G","H","I","J","K","L","M","N","O","P","Q","R","S","T","U","V","W","X","Y","Z">>

Lower ==
    <<"a","b","c","d","e","f","g","h","i","j","k","l","m","n","o","p","q","r","s","t","u","v","w","x","y","z">>

WhiteSpace == {" ", "\t"}

Digits == <<"0","1","2","3","4","5","6","7","8","9">>

Chars == {CodeOrder[i] : i \in 1..Len(CodeOrder)}

CharCodeTable == [c \in Chars |-> CHOOSE i \in 1..Len(CodeOrder) : CodeOrder[i] = c]

\* the code unit of a character, as its rank
CharCode(c) == CharCodeTable[c]

LowerCharTable ==
    [c \in Chars |->
        IF \E i \in 1..Len(Upper) : Upper[i] = c
        THEN Lower[CHOOSE i \in 1..Len(Upper) : Upper[i] = c]
        ELSE c]

\* c.toLowerCase() for one character
LowerChar(c) == LowerCharTable[c]

\* s.toLowerCase()
ToLowerCase(s) == [i \in 1..Len(s) |-> LowerChar(s[i])]

RECURSIVE TrimStart(_)
TrimStart(s) ==
    IF s # <<>> /\ Head(s) \in WhiteSpace THEN TrimStart(Tail(s)) ELSE s

RECURSIVE TrimEnd(_)
TrimEnd(s) ==
    IF s # <<>> /\ s[Len(s)] \in WhiteSpace
    THEN TrimEnd(SubSeq(s, 1, Len(s) - 1))
    ELSE s

\* s.trim()
Trim(s) == TrimEnd(TrimStart(s))

\* a < b for two strings: lexicographic by code unit
RECURSIVE StrLess(_, _)
StrLess(a, b) ==
    IF b = <<>> THEN FALSE
    ELSE IF a = <<>> THEN TRUE
    ELSE IF Head(a) = Head(b) THEN StrLess(Tail(a), Tail(b))
    ELSE CharCode(Head(a)) < CharCode(Head(b))

\* a >= b for two strings
StrGeq(a, b) == ~StrLess(a, b)

----------------------------------------------------------------------------
(* Vaccine intervals configuration (in days).                              *)

vaccineIntervals ==
    <<
       [name |-> <<"R","a","b","i","e","s">>,
        days |-> 365],
       [name |-> <<"C","a","n","i","n","e"," ","D","i","s","t","e","m","p","e","r"," ","V","i","r","u","s">>,
        days |-> 365],
       [name |-> <<"C","a","n","i","n","e"," ","A","d","e","n","o","v","i","r","u","s"," ","(","H","e","p","a","t","i","t","i","s",")">>,
        days |-> 365],
       [name |-> <<"C","a","n","i","n","e"," ","P","a","r","v","o","v","i","r","u","s">>,
        days |-> 365],
       [name |-> <<"C","a","n","i","n","e"," ","P","a","r","a","i","n","f","l","u","e","n","z","a"," ","V","i","r","u","s">>,
        days |-> 365],
       [name |-> <<"B","o","r","d","e","t","e","l","l","a"," ","(","K","e","n","n","e","l"," ","C","o","u","g","h",")">>,
        days |-> 180],
       [name |-> <<"L","e","p","t","o","s","p","i","r","o","s","i","s">>,
        days |-> 365],
       [name |-> <<"C","a","n","i","n","e"," ","I","n","f","l","u","e","n","z","a">>,
        days |-> 365],
       [name |-> <<"L","y","m","e"," ","D","i","s","e","a","s","e">>,
        days |-> 365],
       [name |-> <<"F","e","l","i","n","e"," ","V","i","r","a","l"," ","R","h","i","n","o","t","r","a","c","h","e","i","t","i","s"," ","(","F","H","V","-","1",")">>,
        days |-> 365],
       [name |-> <<"F","e","l","i","n","e"," ","C","a","l","i","c","i","v","i","r","u","s"," ","(","F","C","V",")">>,
        days |-> 365],
       [name |-> <<"F","e","l","i","n","e"," ","P","a","n","l","e","u","k","o","p","e","n","i","a"," ","(","F","P","V",")">>,
        days |-> 365],
       [name |-> <<"F","e","l","i","n","e"," ","L","e","u","k","e","m","i","a"," ","V","i","r","u","s"," ","(","F","e","L","V",")">>,
        days |-> 365],
       [name |-> <<"F","e","l","i","n","e"," ","I","m","m","u","n","o","d","e","f","i","c","i","e","n","c","y"," ","V","i","r","u","s"," ","(","F","I","V",")">>,
        days |-> 365],
       [name |-> <<"C","h","l","a","m","y","d","o","p","h","i","l","a"," ","f","e","l","i","s">>,
        days |-> 365],
       [name |-> <<"M","y","x","o","m","a","t","o","s","i","s">>,
        days |-> 365],
       [name |-> <<"R","a","b","b","i","t"," ","H","a","e","m","o","r","r","h","a","g","i","c"," ","D","i","s","e","a","s","e"," ","(","R","H","D","V","1"," ","&"," ","R","H","D","V","2",")">>,
        days |-> 365],
       [name |-> <<"A","v","i","a","n"," ","P","o","l","y","o","m","a","v","i","r","u","s"," ","(","r","a","r","e"," ","c","a","s","e","s",")">>,
        days |-> 365],
       [name |-> <<"P","i","g","e","o","n"," ","P","o","x"," ","(","s","p","e","c","i","f","i","c"," ","s","p","e","c","i","e","s",")">>,
        days |-> 365],
       [name |-> <<"S","p","r","i","n","g"," ","V","i","r","e","m","i","a"," ","o","f"," ","C","a","r","p"," ","(","S","V","C",")">>,
        days |-> 365],
       [name |-> <<"A","e","r","o","m","o","n","a","s"," ","V","a","c","c","i","n","e">>,
        days |-> 365]
    >>

\* the table with a yearly entry for a type the configuration does not have
normalizedIntervalsWithParvo ==
    [i \in 1..(Len(vaccineIntervals) + 1) |->
        IF i <= Len(vaccineIntervals)
        THEN [key |-> ToLowerCase(vaccineIntervals[i].name),
              days |-> vaccineIntervals[i].days]
        ELSE [key |-> <<"p","a","r","v","o">>, days |-> 365]]

\* keys lower-cased, in insertion order; a later duplicate key overwrites
\* the value of the earlier one
normalizedIntervals ==
    LET low == [i \in 1..Len(vaccineIntervals) |->
                   ToLowerCase(vaccineIntervals[i].name)]
        first(i) == \A j \in 1..(i - 1) : low[j] # low[i]
        last(i) == CHOOSE j \in i..Len(low) :
                       low[j] = low[i] /\ \A k \in (j + 1)..Len(low) : low[k] # low[i]
        RECURSIVE build(_)
        build(i) ==
            IF i > Len(low) THEN <<>>
            ELSE IF first(i)
                 THEN <<[key |-> low[i], days |-> vaccineIntervals[last(i)].days]>>
                      \o build(i + 1)
                 ELSE build(i + 1)
    IN build(1)

----------------------------------------------------------------------------
(* Dates.  `new Date(s)` of a date-only string is UTC midnight of that     *)
(* day; an unparsable string gives the NaN time value.                     *)

\* days since 1970-01-01 of the proleptic Gregorian date y-m-d
DaysFromCivil(y, m, d) ==
    LET yy  == IF m <= 2 THEN y - 1 ELSE y
        era == yy \div 400
        yoe == yy - era * 400
        mp  == IF m > 2 THEN m - 3 ELSE m + 9
        doy == (153 * mp + 2) \div 5 + d - 1
        doe == yoe * 365 + yoe \div 4 - yoe \div 100 + doy
    IN era * 146097 + doe - 719468

\* <<y, m, d>> of a day number
CivilFromDays(z) ==
    LET zz  == z + 719468
        era == zz \div 146097
        doe == zz - era * 146097
        yoe == (doe - doe \div 1460 + doe \div 36524 - doe \div 146096) \div 365
        doy == doe - (365 * yoe + yoe \div 4 - yoe \div 100)
        mp  == (5 * doy + 2) \div 153
        d   == doy - (153 * mp + 2) \div 5 + 1
        m   == IF mp < 10 THEN mp + 3 ELSE mp - 9
        y   == yoe + era * 400
    IN <<IF m <= 2 THEN y + 1 ELSE y, m, d>>

IsDigit(c) == \E i \in 1..10 : Digits[i] = c

DigitVal(c) == (CHOOSE i \in 1..10 : Digits[i] = c) - 1

NaN == [nan |-> TRUE, time |-> 0]

\* new Date(x): x is null (time 0 in JavaScript, but the pass never parses a
\* falsy date), a "YYYY-MM-DD" string, or a string that is no date
NewDate(x) ==
    LET s == x.s
        wellFormed ==
            /\ x.t = "str"
            /\ Len(s) = 10
            /\ s[5] = "-" /\ s[8] = "-"
            /\ \A i \in {1, 2, 3, 4, 6, 7, 9, 10} : IsDigit(s[i])
        y == 1000 * DigitVal(s[1]) + 100 * DigitVal(s[2])
               + 10 * DigitVal(s[3]) + DigitVal(s[4])
        m == 10 * DigitVal(s[6]) + DigitVal(s[7])
        d == 10 * DigitVal(s[9]) + DigitVal(s[10])
    IN IF x.t = "null" THEN [nan |-> FALSE, time |-> 0]
       ELSE IF wellFormed /\ m \in 1..12 /\ d \in 1..31
            THEN [nan |-> FALSE, time |-> DaysFromCivil(y, m, 1) + d - 1]
            ELSE NaN

\* a > b for two Date objects (NaN compares false)
DateGreater(a, b) == ~a.nan /\ ~b.nan /\ a.time > b.time

\* date.setDate(date.getDate() + n)
SetDatePlus(date, n) == [date EXCEPT !.time = @ + n]

TwoDigits(n) == <<Digits[(n \div 10) + 1], Digits[(n % 10) + 1]>>

\* date.toISOString().split('T')[0], for a valid date of the years 0..9999
ISODateStr(date) ==
    LET c == CivilFromDays(date.time)
    IN TwoDigits(c[1] \div 100) \o TwoDigits(c[1] % 100) \o <<"-">>
       \o TwoDigits(c[2]) \o <<"-">> \o TwoDigits(c[3])

----------------------------------------------------------------------------
(* Helper: remove duplicate vaccinations (case-insensitive).               *)
(* An entry is null or an object {vaccineType, date}.                      *)

Entry(type, date) == [vaccineType |-> type, date |-> date]

IsNullEntry(v) == "t" \in DOMAIN v

\* the key without the case folding
KeyOfCaseSensitive(v) == Trim(String(v.vaccineType))

\* the dedup key of an entry that has a vaccine type
KeyOf(v) == ToLowerCase(Trim(String(v.vaccineType)))

\* the test of line 115: skip the entry
DedupeSkips(v) == IsNullEntry(v) \/ Falsy(v.vaccineType)

\* the test of line 117: the key is new
DedupeKeeps(seen, key) == key \notin seen

\* the object pushed at line 120
DedupePushed(v) == Entry(Str(Trim(String(v.vaccineType))), v.date)

RECURSIVE DedupeLoop(_, _, _, _)
DedupeLoop(vaccinations, i, seen, unique) ==
    IF i > Len(vaccinations) THEN unique
    ELSE LET v == vaccinations[i] IN
         IF DedupeSkips(v)
         THEN DedupeLoop(vaccinations, i + 1, seen, unique)
         ELSE IF DedupeKeeps(seen, KeyOf(v))
              THEN DedupeLoop(vaccinations, i + 1, seen \cup {KeyOf(v)},
                              Append(unique, DedupePushed(v)))
              ELSE DedupeLoop(vaccinations, i + 1, seen, unique)

dedupeVaccinationsArray(vaccinations) == DedupeLoop(vaccinations, 1, {}, <<>>)

----------------------------------------------------------------------------
(* The document store.                                                     *)

Pet(id, name, vaccinations) ==
    [_id |-> id, pet_name |-> name, vaccinations |-> vaccinations]

Adoption(petId, status, adopterEmail) ==
    [petId |-> petId, status |-> status, adopterEmail |-> adopterEmail]

Purchase(petId, buyerEmail) == [petId |-> petId, buyerEmail |-> buyerEmail]

NoDoc == [petId |-> "", status |-> "", adopterEmail |-> "", buyerEmail |-> ""]

\* petCollection.find({vaccinations: {$exists: true, $ne: []}}).toArray()
FindPetsWithVaccinations(coll) ==
    SelectSeq(coll, LAMBDA pet : pet.vaccinations # <<>>)

\* the lookup without the status filter
FindAnyAdoption(coll, petId) ==
    LET hits == SelectSeq(coll, LAMBDA a : a.petId = petId)
    IN IF hits = <<>> THEN NoDoc
       ELSE [NoDoc EXCEPT !.petId = hits[1].petId, !.status = hits[1].status,
                          !.adopterEmail = hits[1].adopterEmail]

\* adoptionCollection.findOne({petId, status: 'accepted'}): the first match
FindAcceptedAdoption(coll, petId) ==
    LET hits == SelectSeq(coll, LAMBDA a : a.petId = petId /\ a.status = "accepted")
    IN IF hits = <<>> THEN NoDoc
       ELSE [NoDoc EXCEPT !.petId = hits[1].petId, !.status = hits[1].status,
                          !.adopterEmail = hits[1].adopterEmail]

\* purchasesCollection.findOne({petId}): the first match
FindPurchase(coll, petId) ==
    LET hits == SelectSeq(coll, LAMBDA b : b.petId = petId)
    IN IF hits = <<>> THEN NoDoc
       ELSE [NoDoc EXCEPT !.petId = hits[1].petId, !.buyerEmail = hits[1].buyerEmail]

----------------------------------------------------------------------------
(* sendVaccinationReminders: the evaluation of one (pet, vaccine type).    *)

\* the filter of lines 162-165
EntryMatches(v, vaccineKeyLower) ==
    /\ ~IsNullEntry(v)
    /\ ~Falsy(v.vaccineType)
    /\ ~Falsy(v.date)
    /\ ToLowerCase(Trim(String(v.vaccineType))) = vaccineKeyLower

EntriesForType(pet, vaccineKeyLower) ==
    SelectSeq(pet.vaccinations, LAMBDA v : EntryMatches(v, vaccineKeyLower))

\* the reducer with its comparison turned round: the earlier dose wins
EarlierOf(latest, current) ==
    IF DateGreater(NewDate(latest.date), NewDate(current.date))
    THEN current ELSE latest

\* the reducer of line 171
LaterOf(latest, current) ==
    IF DateGreater(NewDate(current.date), NewDate(latest.date))
    THEN current ELSE latest

RECURSIVE Reduce(_, _, _)
Reduce(entries, i, latest) ==
    IF i > Len(entries) THEN latest
    ELSE Reduce(entries, i + 1, LaterOf(latest, entries[i]))

\* lines 170-172: entriesForType.reduce(..., entriesForType[0])
LatestForType(entriesForType) == Reduce(entriesForType, 1, entriesForType[1])

\* the due date taken one day late
NextDueDateStrOneDayLate(lastDate, intervalDays) ==
    ISODateStr(SetDatePlus(lastDate, intervalDays + 1))

\* lines 178-180
NextDueDateStr(lastDate, intervalDays) ==
    ISODateStr(SetDatePlus(lastDate, intervalDays))

\* the window with its bounds shifted: (tomorrow, day after tomorrow]
InWindowLate(nextDueDateStr, tomorrowStr, dayAfterTomorrowStr) ==
    /\ StrLess(tomorrowStr, nextDueDateStr)
    /\ StrGeq(dayAfterTomorrowStr, nextDueDateStr)

\* the test of line 183
InWindow(nextDueDateStr, tomorrowStr, dayAfterTomorrowStr) ==
    /\ StrGeq(nextDueDateStr, tomorrowStr)
    /\ StrLess(nextDueDateStr, dayAfterTomorrowStr)

\* lines 160-183 for one pet and one entry of normalizedIntervals: whether
\* the body of the `if` of line 183 is entered
IsDue(pet, k, tomorrowStr, dayAfterTomorrowStr) ==
    LET entriesForType == EntriesForType(pet, normalizedIntervals[k].key)
        lastDate == NewDate(LatestForType(entriesForType).date)
    IN /\ entriesForType # <<>>
       /\ ~lastDate.nan
       /\ InWindow(NextDueDateStr(lastDate, normalizedIntervals[k].days),
                   tomorrowStr, dayAfterTomorrowStr)

\* the loops of lines 158-160 from position (i, k) on: the first position
\* at which the `if` of line 183 is entered, <<0, 0>> when the loops end
RECURSIVE NextDuePos(_, _, _, _, _)
NextDuePos(ps, i, k, tomorrowStr, dayAfterTomorrowStr) ==
    IF i > Len(ps) THEN <<0, 0>>
    ELSE IF k > Len(normalizedIntervals)
         THEN NextDuePos(ps, i + 1, 1, tomorrowStr, dayAfterTomorrowStr)
         ELSE IF IsDue(ps[i], k, tomorrowStr, dayAfterTomorrowStr)
              THEN <<i, k>>
              ELSE NextDuePos(ps, i, k + 1, tomorrowStr, dayAfterTomorrowStr)

----------------------------------------------------------------------------
(* One invocation of sendVaccinationReminders.                             *)

NoEntry == Entry(Null, Null)

\* lines 145-156, up to the await of the pet query
NewPass(trigger, now) ==
    LET tomorrow == SetDatePlus([nan |-> FALSE, time |-> now], 1)
        dayAfterTomorrow == SetDatePlus(tomorrow, 1)
    IN [trigger |-> trigger,
        pc |-> "awaitPets",
        tomorrowStr |-> ISODateStr(tomorrow),
        dayAfterTomorrowStr |-> ISODateStr(dayAfterTomorrow),
        pets |-> <<>>,
        i |-> 0,
        k |-> 0,
        latestForType |-> NoEntry,
        nextDueDateStr |-> <<>>,
        mails |-> <<>>,
        console |-> <<>>,
        response |-> "none"]

LogLine(tag, pass) ==
    [tag |-> tag,
     pet |-> IF pass.i = 0 THEN "" ELSE pass.pets[pass.i]._id,
     vaccineType |-> pass.latestForType.vaccineType,
     due |-> pass.nextDueDateStr]

\* the catch of lines 221-223: the error is logged and the call returns
Caught(pass) ==
    [pass EXCEPT !.pc = "failed",
                 !.console = Append(@, LogLine("error", pass))]

\* the loops leave the pet at its first due type
AdvanceSkipsPet(pass, i, k) ==
    LET pos == NextDuePos(pass.pets, IF k = 1 THEN i ELSE i + 1, 1,
                          pass.tomorrowStr, pass.dayAfterTomorrowStr)
    IN IF pos = <<0, 0>>
       THEN [pass EXCEPT !.pc = "done"]
       ELSE LET pet == pass.pets[pos[1]]
                key == normalizedIntervals[pos[2]]
                latest == LatestForType(EntriesForType(pet, key.key))
            IN [pass EXCEPT
                   !.pc = "awaitAdoption",
                   !.i = pos[1],
                   !.k = pos[2],
                   !.latestForType = latest,
                   !.nextDueDateStr = NextDueDateStr(NewDate(latest.date), key.days)]

\* the loops run on from (i, k) to the next await or to the end
Advance(pass, i, k) ==
    LET pos == NextDuePos(pass.pets, i, k, pass.tomorrowStr, pass.dayAfterTomorrowStr)
    IN IF pos = <<0, 0>>
       THEN [pass EXCEPT !.pc = "done"]
       ELSE LET pet == pass.pets[pos[1]]
                key == normalizedIntervals[pos[2]]
                latest == LatestForType(EntriesForType(pet, key.key))
            IN [pass EXCEPT
                   !.pc = "awaitAdoption",
                   !.i = pos[1],
                   !.k = pos[2],
                   !.latestForType = latest,
                   !.nextDueDateStr = NextDueDateStr(NewDate(latest.date), key.days)]

\* the mail helper keeping a record of the reminders already handed over,
\* by any invocation
SendReminderEmailOnce(mails, to, petName, vaccineType, vaccineDate) ==
    IF to = "" THEN mails
    ELSE IF \E p \in 1..Len(passes) : \E j \in 1..Len(passes[p].mails) :
                /\ passes[p].mails[j].to = to
                /\ passes[p].mails[j].petName = petName
                /\ passes[p].mails[j].vaccineType = vaccineType
                /\ passes[p].mails[j].vaccineDate = vaccineDate
         THEN mails
         ELSE Append(mails, [to |-> to, petName |-> petName,
                             vaccineType |-> vaccineType,
                             vaccineDate |-> vaccineDate,
                             status |-> "queued"])

\* sendReminderEmail (lines 87-104): the mails handed to the transporter
SendReminderEmail(mails, to, petName, vaccineType, vaccineDate) ==
    IF to = "" THEN mails
    ELSE Append(mails, [to |-> to, petName |-> petName,
                        vaccineType |-> vaccineType,
                        vaccineDate |-> vaccineDate,
                        status |-> "queued"])

\* lines 190-205: after the adoption lookup
NotifyAdopter(pass, adoption) ==
    IF adoption.adopterEmail # ""
    THEN [pass EXCEPT
             !.mails = SendReminderEmail(@, adoption.adopterEmail,
                                         pass.pets[pass.i].pet_name,
                                         pass.latestForType.vaccineType,
                                         pass.nextDueDateStr),
             !.console = Append(@, LogLine("adopter", pass)),
             !.pc = "awaitPurchase"]
    ELSE [pass EXCEPT !.console = Append(@, LogLine("no adopter", pass)),
                      !.pc = "awaitPurchase"]

\* lines 207-217: after the purchase lookup
NotifyBuyer(pass, purchase) ==
    IF purchase.buyerEmail # ""
    THEN [pass EXCEPT
             !.mails = SendReminderEmail(@, purchase.buyerEmail,
                                         pass.pets[pass.i].pet_name,
                                         pass.latestForType.vaccineType,
                                         pass.nextDueDateStr),
             !.console = Append(@, LogLine("buyer", pass))]
    ELSE [pass EXCEPT !.console = Append(@, LogLine("no buyer", pass))]

\* the callback throwing its error into the pass
MailCallbackAborts(pass, j, err) ==
    IF err
    THEN [pass EXCEPT !.mails[j].status = "failed", !.pc = "failed"]
    ELSE [pass EXCEPT !.mails[j].status = "sent"]

\* the callback of transporter.sendMail (lines 100-103)
MailCallbackResult(pass, j, err) ==
    [pass EXCEPT !.mails[j].status = IF err THEN "failed" ELSE "sent"]

\* the promise sendVaccinationReminders returns
Promise(pass) ==
    IF pass.pc \in {"done", "failed"} THEN "resolved" ELSE "pending"

\* lines 243-249: the handler after its await
ManualResponse(promise) ==
    IF promise = "rejected" THEN "failure" ELSE "success"

----------------------------------------------------------------------------
(* The adoption endpoints.                                                 *)

\* the pet document POST /pet stores (lines 351-356): not adopted
ListedPet(id, name, vaccinations) ==
    [_id |-> id, pet_name |-> name, vaccinations |-> vaccinations,
     adopted |-> FALSE]

\* the document POST /adoption stores: the body of a request for the pet,
\* under the n-th identifier the store hands out
AdoptionRequest(n, petId, adopterEmail) ==
    [_id |-> n, petId |-> petId, status |-> "pending",
     adopterEmail |-> adopterEmail, adopted |-> FALSE]

\* whether findOne({_id}) resolves a document (line 504)
HasDocument(coll, id) == \E n \in 1..Len(coll) : coll[n]._id = id

\* the document findOne({_id}) resolves
FindById(coll, id) == coll[CHOOSE n \in 1..Len(coll) : coll[n]._id = id]

\* line 515: !petId || !ObjectId.isValid(petId)
InvalidPetId(petId) == petId = ""

\* updateOne of lines 523-532: acceptedAt is set to a new time, so a
\* matched document always counts as modified
MarkAccepted(coll, id) ==
    [n \in 1..Len(coll) |->
        IF coll[n]._id = id
        THEN [coll[n] EXCEPT !.adopted = TRUE, !.status = "accepted"]
        ELSE coll[n]]

RequestModifiedCount(coll, id) == IF HasDocument(coll, id) THEN 1 ELSE 0

\* updateOne of lines 542-545
MarkPetAdopted(coll, petId) ==
    [n \in 1..Len(coll) |->
        IF coll[n]._id = petId THEN [coll[n] EXCEPT !.adopted = TRUE] ELSE coll[n]]

\* its modifiedCount: a pet that is adopted already is matched, not modified
PetModifiedCount(coll, petId) ==
    IF \E n \in 1..Len(coll) : coll[n]._id = petId /\ ~coll[n].adopted
    THEN 1 ELSE 0

\* updateMany of lines 555-561
CloseOthers(coll, petId, id) ==
    [n \in 1..Len(coll) |->
        IF coll[n].petId = petId /\ coll[n]._id # id
        THEN [coll[n] EXCEPT !.status = "closed"]
        ELSE coll[n]]

\* a PUT /adoption/accept/:id request on arrival (lines 499-504)
NewAccept(id) == [id |-> id, pc |-> "findOne", petId |-> "", status |-> 0]

\* the handler answers with the status code
Answered(accept, code) == [accept EXCEPT !.pc = "sent", !.status = code]

----------------------------------------------------------------------------
(* Bounds and the values the inputs are drawn from.                        *)

\* longest vaccination history of a stored pet and longest request body
MaxDoses == 2

\* longest body of a PATCH /pet/:id/vaccinations request
MaxBody == 3

\* invocations of sendVaccinationReminders in flight at the same time
MaxPasses == 2

\* adoption requests posted
MaxRequests == 2

\* PUT /adoption/accept/:id requests made
MaxAccepts == 2

Rabies == Str(<<"R","a","b","i","e","s">>)

RabiesPadded == Str(<<" ","r","a","b","i","e","s"," ">>)

RabiesUpper == Str(<<"R","A","B","I","E","S">>)

Bordetella == Str(<<"B","o","r","d","e","t","e","l","l","a"," ","(","K","e","n","n","e","l"," ","C","o","u","g","h",")">>)

Parvo == Str(<<"P","a","r","v","o">>)

Blank == Str(<<" ">>)

Jan09 == Str(<<"2","0","2","4","-","0","1","-","0","9">>)

Jan10 == Str(<<"2","0","2","4","-","0","1","-","1","0">>)

Jul13 == Str(<<"2","0","2","4","-","0","7","-","1","3">>)

NotADate == Str(<<"n","/","a">>)

\* 2025-01-07 .. 2025-01-10
EvalDays == DaysFromCivil(2025, 1, 7)..DaysFromCivil(2025, 1, 10)

EvalEntries ==
    {Entry(Rabies, Jan10), Entry(Rabies, Jan09), Entry(RabiesPadded, Jan10),
     Entry(RabiesPadded, Jan09), Entry(Rabies, NotADate), Entry(Rabies, Null),
     Entry(Bordetella, Jul13), Entry(Parvo, Jan10)}

SeqsUpTo(S, n) == UNION {[1..m -> S] : m \in 0..n}

BodyEntries ==
    {Null, Entry(Null, Jan09), Entry(Str(<<>>), Jan09), Entry(Blank, Jan09),
     Entry(Blank, Jan10), Entry(Rabies, Jan09), Entry(RabiesPadded, Jan10),
     Entry(RabiesUpper, Jan09), Entry(Parvo, Jan10)}

----------------------------------------------------------------------------
(* Actions.                                                                *)

StoreUnchanged == UNCHANGED <<today, pets, adoptions, purchases>>

\* line 227: run() calls the pass once, before the triggers are set up
Startup ==
    /\ passes = <<>>
    /\ passes' = <<NewPass("startup", today)>>
    /\ StoreUnchanged /\ UNCHANGED <<reqBody, resSent, accepts, inserted>>

\* lines 232-239: the daily job (at most once on the day modelled), while
\* fewer than `limit` invocations are tracked
CronTick(limit) ==
    /\ Len(passes) < limit
    /\ \A p \in 1..Len(passes) : passes[p].trigger # "cron"
    /\ passes' = Append(passes, NewPass("cron", today))
    /\ StoreUnchanged /\ UNCHANGED <<reqBody, resSent, accepts, inserted>>

\* lines 242-244: GET /test-send-vaccination-reminders, up to its await
ManualRequest(limit) ==
    /\ Len(passes) < limit
    /\ passes' = Append(passes, NewPass("manual", today))
    /\ StoreUnchanged /\ UNCHANGED <<reqBody, resSent, accepts, inserted>>

\* lines 154-156 resume: the pet query answers or throws
PetsResolved(p, err) ==
    /\ passes[p].pc = "awaitPets"
    /\ passes' = [passes EXCEPT ![p] =
          IF err THEN Caught(@)
          ELSE Advance([@ EXCEPT !.pets = FindPetsWithVaccinations(pets)], 1, 1)]
    /\ StoreUnchanged /\ UNCHANGED <<reqBody, resSent, accepts, inserted>>

\* lines 185-203 resume: the adoption lookup answers or throws
AdoptionResolved(p, err) ==
    /\ passes[p].pc = "awaitAdoption"
    /\ passes' = [passes EXCEPT ![p] =
          IF err THEN Caught(@)
          ELSE NotifyAdopter(@, FindAcceptedAdoption(adoptions, @.pets[@.i]._id))]
    /\ StoreUnchanged /\ UNCHANGED <<reqBody, resSent, accepts, inserted>>

\* lines 203-220 resume: the purchase lookup answers or throws
PurchaseResolved(p, err) ==
    /\ passes[p].pc = "awaitPurchase"
    /\ passes' = [passes EXCEPT ![p] =
          IF err THEN Caught(@)
          ELSE LET after == NotifyBuyer(@, FindPurchase(purchases, @.pets[@.i]._id))
               IN Advance(after, after.i, after.k + 1)]
    /\ StoreUnchanged /\ UNCHANGED <<reqBody, resSent, accepts, inserted>>

\* lines 100-103: the transporter calls back, with or without an error
MailCallback(p, j, err) ==
    /\ j \in 1..Len(passes[p].mails)
    /\ passes[p].mails[j].status = "queued"
    /\ passes' = [passes EXCEPT ![p] = MailCallbackResult(@, j, err)]
    /\ StoreUnchanged /\ UNCHANGED <<reqBody, resSent, accepts, inserted>>

\* lines 245-249: the manual endpoint answers once its await returns
ManualRespond(p) ==
    /\ passes[p].trigger = "manual"
    /\ passes[p].response = "none"
    /\ Promise(passes[p]) # "pending"
    /\ passes' = [passes EXCEPT ![p].response = ManualResponse(Promise(passes[p]))]
    /\ StoreUnchanged /\ UNCHANGED <<reqBody, resSent, accepts, inserted>>

\* lines 462-475: PATCH /pet/:id/vaccinations
PatchVaccinations(id) ==
    /\ ~resSent
    /\ pets' = [n \in 1..Len(pets) |->
                  IF pets[n]._id = id
                  THEN [pets[n] EXCEPT !.vaccinations = dedupeVaccinationsArray(reqBody)]
                  ELSE pets[n]]
    /\ resSent' = TRUE
    /\ UNCHANGED <<today, adoptions, purchases, passes, reqBody, accepts, inserted>>

\* lines 486-490: POST /adoption stores the body as it is
PostAdoption(petId, adopterEmail) ==
    /\ inserted < MaxRequests
    /\ adoptions' = Append(adoptions,
                           AdoptionRequest(inserted + 1, petId, adopterEmail))
    /\ inserted' = inserted + 1
    /\ UNCHANGED <<today, pets, purchases, passes, reqBody, resSent, accepts>>

\* lines 579-583: DELETE /adoption/reject/:id
RejectAdoption(id) ==
    /\ adoptions' = SelectSeq(adoptions, LAMBDA a : a._id # id)
    /\ UNCHANGED <<today, pets, purchases, passes, reqBody, resSent, accepts,
                   inserted>>

\* lines 499-504: PUT /adoption/accept/:id arrives and awaits the request
AcceptRequest(id) ==
    /\ Len(accepts) < MaxAccepts
    /\ accepts' = Append(accepts, NewAccept(id))
    /\ StoreUnchanged /\ UNCHANGED <<passes, reqBody, resSent, inserted>>

\* lines 504-523: the request lookup answers
AcceptFound(r) ==
    /\ accepts[r].pc = "findOne"
    /\ accepts' = [accepts EXCEPT ![r] =
          IF ~HasDocument(adoptions, @.id) THEN Answered(@, 404)
          ELSE IF InvalidPetId(FindById(adoptions, @.id).petId) THEN Answered(@, 400)
          ELSE [@ EXCEPT !.pc = "updateRequest",
                         !.petId = FindById(adoptions, accepts[r].id).petId]]
    /\ StoreUnchanged /\ UNCHANGED <<passes, reqBody, resSent, inserted>>

\* lines 523-542: the request is marked accepted
AcceptRequestUpdated(r) ==
    /\ accepts[r].pc = "updateRequest"
    /\ adoptions' = MarkAccepted(adoptions, accepts[r].id)
    /\ accepts' = [accepts EXCEPT ![r] =
          IF RequestModifiedCount(adoptions, @.id) = 0 THEN Answered(@, 500)
          ELSE [@ EXCEPT !.pc = "updatePet"]]
    /\ UNCHANGED <<today, pets, purchases, passes, reqBody, resSent, inserted>>

\* lines 542-555: the pet is marked adopted
AcceptPetUpdated(r) ==
    /\ accepts[r].pc = "updatePet"
    /\ pets' = MarkPetAdopted(pets, accepts[r].petId)
    /\ accepts' = [accepts EXCEPT ![r] =
          IF PetModifiedCount(pets, @.petId) = 0 THEN Answered(@, 500)
          ELSE [@ EXCEPT !.pc = "closeOthers"]]
    /\ UNCHANGED <<today, adoptions, purchases, passes, reqBody, resSent, inserted>>

\* lines 555-568: the other requests of the pet are closed
AcceptOthersClosed(r) ==
    /\ accepts[r].pc = "closeOthers"
    /\ adoptions' = CloseOthers(adoptions, accepts[r].petId, accepts[r].id)
    /\ accepts' = [accepts EXCEPT ![r] = Answered(@, 200)]
    /\ UNCHANGED <<today, pets, purchases, passes, reqBody, resSent, inserted>>

----------------------------------------------------------------------------
(* Specifications.                                                         *)

Bella == "p1"

Max == "p2"

\* one invocation, by any of the three triggers, with store and mail
\* failures; invocations that ended before it are not tracked
Init ==
    /\ today = DaysFromCivil(2025, 1, 8)
    /\ \E h1 \in {<<Entry(Rabies, Jan10)>>,
                  <<Entry(Rabies, Jan10), Entry(Bordetella, Jul13)>>},
          h2 \in {<<Entry(RabiesUpper, Jan10)>>, <<Entry(Rabies, Jan09)>>} :
          pets = <<Pet(Bella, "Bella", h1), Pet(Max, "Max", h2)>>
    /\ adoptions \in {<<>>,
                      <<Adoption(Bella, "accepted", "adopter@x")>>,
                      <<Adoption(Bella, "pending", "adopter@x")>>,
                      <<Adoption(Bella, "accepted", "")>>,
                      <<Adoption(Max, "accepted", "adopter2@x"),
                        Adoption(Bella, "closed", "former@x"),
                        Adoption(Bella, "accepted", "adopter@x")>>}
    /\ purchases \in {<<>>,
                      <<Purchase(Bella, "buyer@x")>>,
                      <<Purchase(Bella, "")>>,
                      <<Purchase(Max, "buyer2@x")>>}
    /\ passes = <<>>
    /\ reqBody = <<>>
    /\ resSent = TRUE
    /\ accepts = <<>>
    /\ inserted = 0

Next ==
    \/ Startup
    \/ CronTick(1)
    \/ ManualRequest(1)
    \/ \E p \in 1..Len(passes), err \in BOOLEAN : PetsResolved(p, err)
    \/ \E p \in 1..Len(passes), err \in BOOLEAN : AdoptionResolved(p, err)
    \/ \E p \in 1..Len(passes), err \in BOOLEAN : PurchaseResolved(p, err)
    \/ \E p \in 1..Len(passes) :
          \E j \in 1..Len(passes[p].mails), err \in BOOLEAN : MailCallback(p, j, err)
    \/ \E p \in 1..Len(passes) : ManualRespond(p)

Spec == Init /\ [][Next]_vars

\* one pass over one pet whose history and evaluation day are drawn
InitEval ==
    /\ today \in EvalDays
    /\ \E h \in SeqsUpTo(EvalEntries, MaxDoses) : pets = <<Pet(Bella, "Bella", h)>>
    /\ adoptions = <<Adoption(Bella, "accepted", "adopter@x")>>
    /\ purchases = <<>>
    /\ passes = <<>>
    /\ reqBody = <<>>
    /\ resSent = TRUE
    /\ accepts = <<>>
    /\ inserted = 0

NextEval ==
    \/ Startup
    \/ \E p \in 1..Len(passes) : PetsResolved(p, FALSE)
    \/ \E p \in 1..Len(passes) : AdoptionResolved(p, FALSE)
    \/ \E p \in 1..Len(passes) : PurchaseResolved(p, FALSE)
    \/ \E p \in 1..Len(passes) :
          \E j \in 1..Len(passes[p].mails), err \in BOOLEAN : MailCallback(p, j, err)

SpecEval == InitEval /\ [][NextEval]_vars

\* invocations in flight at the same time (up to MaxPasses), no failures
InitOverlap ==
    /\ today = DaysFromCivil(2025, 1, 8)
    /\ pets \in {<<Pet(Bella, "Bella", <<Entry(Rabies, Jan10)>>)>>,
                 <<Pet(Bella, "Bella", <<Entry(Rabies, Jan10), Entry(Bordetella, Jul13)>>),
                   Pet(Max, "Max", <<Entry(RabiesUpper, Jan10)>>)>>}
    /\ adoptions = <<Adoption(Bella, "accepted", ""),
                     Adoption(Max, "pending", "adopter2@x")>>
    /\ purchases = IF Len(pets) = 1 THEN <<Purchase(Bella, "buyer@x")>> ELSE <<>>
    /\ passes = <<>>
    /\ reqBody = <<>>
    /\ resSent = TRUE
    /\ accepts = <<>>
    /\ inserted = 0

NextOverlap ==
    \/ Startup
    \/ CronTick(MaxPasses)
    \/ ManualRequest(MaxPasses)
    \/ \E p \in 1..Len(passes) : PetsResolved(p, FALSE)
    \/ \E p \in 1..Len(passes) : AdoptionResolved(p, FALSE)
    \/ \E p \in 1..Len(passes) : PurchaseResolved(p, FALSE)
    \/ \E p \in 1..Len(passes) :
          \E j \in 1..Len(passes[p].mails), err \in BOOLEAN : MailCallback(p, j, err)
    \/ \E p \in 1..Len(passes) : ManualRespond(p)

SpecOverlap == InitOverlap /\ [][NextOverlap]_vars

\* two invocations on one day, the daily job starting after the startup
\* invocation has ended, over the store contents of Init; no store or
\* mail failure
InitRerun == Init

NextRerun ==
    \/ Startup
    \/ (\A p \in 1..Len(passes) : passes[p].pc = "done") /\ CronTick(2)
    \/ \E p \in 1..Len(passes) : PetsResolved(p, FALSE)
    \/ \E p \in 1..Len(passes) : AdoptionResolved(p, FALSE)
    \/ \E p \in 1..Len(passes) : PurchaseResolved(p, FALSE)
    \/ \E p \in 1..Len(passes) :
          \E j \in 1..Len(passes[p].mails) : MailCallback(p, j, FALSE)

SpecRerun == InitRerun /\ [][NextRerun]_vars

\* one PATCH /pet/:id/vaccinations request whose body is drawn
InitDedupe ==
    /\ today = DaysFromCivil(2025, 1, 8)
    /\ pets = <<Pet(Bella, "Bella", <<>>)>>
    /\ adoptions = <<>>
    /\ purchases = <<>>
    /\ passes = <<>>
    /\ reqBody \in SeqsUpTo(BodyEntries, MaxBody)
    /\ resSent = FALSE
    /\ accepts = <<>>
    /\ inserted = 0

NextDedupe == \E n \in 1..Len(pets) : PatchVaccinations(pets[n]._id)

SpecDedupe == InitDedupe /\ [][NextDedupe]_vars

\* the adoption endpoints at work on the requests for a listed pet (and
\* requests that name no pet); no store failure
InitAdopt ==
    /\ today = DaysFromCivil(2025, 1, 8)
    /\ pets = <<ListedPet(Bella, "Bella", <<Entry(Rabies, Jan10)>>)>>
    /\ adoptions = <<>>
    /\ purchases = <<>>
    /\ passes = <<>>
    /\ reqBody = <<>>
    /\ resSent = TRUE
    /\ accepts = <<>>
    /\ inserted = 0

NextAdopt ==
    \/ \E petId \in {Bella, ""} :
          PostAdoption(petId, IF inserted % 2 = 0 THEN "adopter@x" ELSE "adopter2@x")
    \/ \E id \in 1..inserted : RejectAdoption(id)
    \/ \E id \in 1..MaxRequests : AcceptRequest(id)
    \/ \E r \in 1..Len(accepts) : AcceptFound(r)
    \/ \E r \in 1..Len(accepts) : AcceptRequestUpdated(r)
    \/ \E r \in 1..Len(accepts) : AcceptPetUpdated(r)
    \/ \E r \in 1..Len(accepts) : AcceptOthersClosed(r)

SpecAdopt == InitAdopt /\ [][NextAdopt]_vars

----------------------------------------------------------------------------
(* What the claims speak of.                                               *)

\* the vaccine type of a stored value, trimmed and case-folded
TypeKey(x) == ToLowerCase(Trim(String(x)))

\* the positions of a pet's history that hold a dose of the type `key`
DosesOf(pet, key) ==
    {j \in 1..Len(pet.vaccinations) :
        /\ ~IsNullEntry(pet.vaccinations[j])
        /\ ~Falsy(pet.vaccinations[j].vaccineType)
        /\ TypeKey(pet.vaccinations[j].vaccineType) = key}

ValidDate(d) == ~Falsy(d) /\ ~NewDate(d).nan

DayOf(d) == NewDate(d).time

\* the console lines of a pass that open the dispatch of a due pair
DueLines(pass, petId, key) ==
    {n \in 1..Len(pass.console) :
        /\ pass.console[n].tag \in {"adopter", "no adopter"}
        /\ pass.console[n].pet = petId
        /\ TypeKey(pass.console[n].vaccineType) = key}

\* how often a finished pass flagged the type `key` of a pet as due
Flagged(pass, petId, key) == Cardinality(DueLines(pass, petId, key))

Keys == 1..Len(normalizedIntervals)

\* C1: a pet with exactly one dose of a type T of the interval table, given
\* on a valid date D, is flagged for T exactly once by a pass run on day
\* D + I - 1 and not at all by a pass run on any other day (D + I - 2 and
\* D + I among them).
C1_SingleDoseFlaggedDayBefore ==
    \A p \in 1..Len(passes) : \A n \in 1..Len(pets) : \A k \in Keys :
        LET pet == pets[n]
            doses == DosesOf(pet, normalizedIntervals[k].key)
            dose == pet.vaccinations[CHOOSE j \in doses : TRUE]
        IN (/\ passes[p].pc = "done"
            /\ Cardinality(doses) = 1
            /\ ValidDate(dose.date))
           => Flagged(passes[p], pet._id, normalizedIntervals[k].key)
                = IF today = DayOf(dose.date) + normalizedIntervals[k].days - 1
                  THEN 1 ELSE 0

\* a finished pass that flagged the only dose of a type on day D + I - 1
C1_Witness ==
    \E p \in 1..Len(passes) : \E n \in 1..Len(pets) : \E k \in Keys :
        LET pet == pets[n]
            doses == DosesOf(pet, normalizedIntervals[k].key)
            dose == pet.vaccinations[CHOOSE j \in doses : TRUE]
        IN /\ passes[p].pc = "done"
           /\ Cardinality(doses) = 1
           /\ ValidDate(dose.date)
           /\ today = DayOf(dose.date) + normalizedIntervals[k].days - 1
           /\ Flagged(passes[p], pet._id, normalizedIntervals[k].key) = 1

D20250109 == <<"2","0","2","5","-","0","1","-","0","9">>

D20250110 == <<"2","0","2","5","-","0","1","-","1","0">>

D20250111 == <<"2","0","2","5","-","0","1","-","1","1">>

RabiesKey == <<"r","a","b","i","e","s">>

\* the pet of the scenario: its only vaccination is Rabies on 2024-01-10
OnlyRabiesJan10 ==
    /\ Len(pets) = 1
    /\ pets[1].vaccinations = <<Entry(Rabies, Jan10)>>

\* C2 as stated: run on 2025-01-09 (day 20097 after 1970-01-01) the pass
\* computes 2025-01-10 and emits one due event; run on 2025-01-08 (day
\* 20096) it emits none.
C2_AsStated ==
    \A p \in 1..Len(passes) :
        (passes[p].pc = "done" /\ OnlyRabiesJan10)
        => /\ today = 20097 =>
                /\ Flagged(passes[p], pets[1]._id, RabiesKey) = 1
                /\ passes[p].nextDueDateStr = D20250110
           /\ today = 20096 => Flagged(passes[p], pets[1]._id, RabiesKey) = 0

\* C2 amended: 2024 is a leap year, so 2024-01-10 plus 365 days is
\* 2025-01-09.  Run on 2025-01-08 the window is [2025-01-09, 2025-01-10) and
\* one due event, for 2025-01-09, is emitted; run on 2025-01-09 the window is
\* [2025-01-10, 2025-01-11) and no event is emitted.
C2_Amended ==
    \A p \in 1..Len(passes) :
        (passes[p].pc = "done" /\ OnlyRabiesJan10)
        => /\ today = 20096 =>
                /\ passes[p].tomorrowStr = D20250109
                /\ passes[p].dayAfterTomorrowStr = D20250110
                /\ Flagged(passes[p], pets[1]._id, RabiesKey) = 1
                /\ passes[p].nextDueDateStr = D20250109
           /\ today = 20097 =>
                /\ passes[p].tomorrowStr = D20250110
                /\ passes[p].dayAfterTomorrowStr = D20250111
                /\ Flagged(passes[p], pets[1]._id, RabiesKey) = 0

\* the pass of 2025-01-08 over the scenario's pet has ended with its event
C2_Witness ==
    \E p \in 1..Len(passes) :
        /\ passes[p].pc = "done"
        /\ OnlyRabiesJan10
        /\ today = 20096
        /\ Flagged(passes[p], pets[1]._id, RabiesKey) = 1

\* C3: a pet with two doses of one type (matched case-insensitively after
\* trimming) on valid dates D1 < D2, stored in either order, is flagged for
\* the type exactly when D2 + I is tomorrow, whatever D1 is.
C3_LatestDoseDecides ==
    \A p \in 1..Len(passes) : \A n \in 1..Len(pets) : \A k \in Keys :
        LET pet == pets[n]
            doses == DosesOf(pet, normalizedIntervals[k].key)
            a == CHOOSE j \in doses : TRUE
            b == CHOOSE j \in doses : j # a
            da == pet.vaccinations[a].date
            db == pet.vaccinations[b].date
            d2 == IF DayOf(da) > DayOf(db) THEN DayOf(da) ELSE DayOf(db)
        IN (/\ passes[p].pc = "done"
            /\ Cardinality(doses) = 2
            /\ ValidDate(da) /\ ValidDate(db)
            /\ DayOf(da) # DayOf(db))
           => Flagged(passes[p], pet._id, normalizedIntervals[k].key)
                = IF d2 + normalizedIntervals[k].days = today + 1 THEN 1 ELSE 0

\* a finished pass flagged a type whose later dose is stored after the
\* earlier one and falls due tomorrow
C3_Witness ==
    \E p \in 1..Len(passes) : \E n \in 1..Len(pets) : \E k \in Keys :
        LET pet == pets[n]
            doses == DosesOf(pet, normalizedIntervals[k].key)
        IN /\ passes[p].pc = "done"
           /\ doses = {1, 2}
           /\ ValidDate(pet.vaccinations[1].date)
           /\ ValidDate(pet.vaccinations[2].date)
           /\ DayOf(pet.vaccinations[1].date) < DayOf(pet.vaccinations[2].date)
           /\ DayOf(pet.vaccinations[2].date) + normalizedIntervals[k].days = today + 1
           /\ Flagged(passes[p], pet._id, normalizedIntervals[k].key) = 1

\* the body positions whose entry carries a vaccine type (not null, not
\* absent, not the empty string)
Typed(body) ==
    {i \in 1..Len(body) : ~IsNullEntry(body[i]) /\ ~Falsy(body[i].vaccineType)}

\* the positions at which a type occurs for the first time in the body
FirstOccurrences(body) ==
    {i \in Typed(body) :
        \A j \in Typed(body) :
            j < i => TypeKey(body[j].vaccineType) # TypeKey(body[i].vaccineType)}

\* C4: the output of dedupeVaccinationsArray holds exactly one entry per
\* case-folded, trimmed vaccine type that occurs in the input; that entry
\* is the first occurrence of the type in input order, with the date of
\* that first occurrence and the type trimmed; the kept entries stand in
\* input order.  (An entry whose vaccineType is null, absent or the empty
\* string carries no vaccine type.)
C4_FirstSeenWins ==
    resSent =>
        LET out == pets[1].vaccinations
            firsts == FirstOccurrences(reqBody)
            rank(i) == Cardinality({j \in firsts : j <= i})
        IN /\ Len(out) = Cardinality(firsts)
           /\ \A i \in firsts :
                 out[rank(i)] = Entry(Str(Trim(String(reqBody[i].vaccineType))),
                                      reqBody[i].date)
           /\ \A i \in Typed(reqBody) :
                 Cardinality({n \in 1..Len(out) :
                                 TypeKey(out[n].vaccineType)
                                   = TypeKey(reqBody[i].vaccineType)}) = 1

\* a body with a type repeated in other casing and with a later date was
\* answered: the output holds the first entry only
C4_Witness ==
    /\ resSent
    /\ Len(reqBody) = 3
    /\ Typed(reqBody) = {1, 2, 3}
    /\ FirstOccurrences(reqBody) = {1, 2}
    /\ TypeKey(reqBody[3].vaccineType) = TypeKey(reqBody[1].vaccineType)
    /\ reqBody[3].vaccineType # reqBody[1].vaccineType
    /\ reqBody[3].date # reqBody[1].date
    /\ Len(pets[1].vaccinations) = 2
    /\ pets[1].vaccinations[1].date = reqBody[1].date

\* a pet's history without the records whose date is missing or no date
WithoutInvalidDates(pet) ==
    [pet EXCEPT !.vaccinations =
        SelectSeq(@, LAMBDA v : IsNullEntry(v) \/ ValidDate(v.date))]

\* C6: a record whose date does not parse is ignored: a finished pass has
\* flagged exactly the (pet, vaccine type) pairs that are due in the
\* history without such records.
C6_InvalidDateIgnored ==
    \A p \in 1..Len(passes) : \A n \in 1..Len(pets) : \A k \in Keys :
        passes[p].pc = "done"
        => Flagged(passes[p], pets[n]._id, normalizedIntervals[k].key)
             = IF /\ pets[n].vaccinations # <<>>
                  /\ IsDue(WithoutInvalidDates(pets[n]), k,
                           passes[p].tomorrowStr, passes[p].dayAfterTomorrowStr)
               THEN 1 ELSE 0

\* the address of the pet's accepted adoption record: of the first record
\* of the pet with status 'accepted' (the one the lookup resolves), "" when
\* there is none or it carries no address
AcceptedAdopterEmail(petId) ==
    LET hits == {a \in 1..Len(adoptions) :
                    adoptions[a].petId = petId /\ adoptions[a].status = "accepted"}
    IN IF hits = {} THEN ""
       ELSE adoptions[CHOOSE a \in hits : \A b \in hits : a <= b].adopterEmail

\* the address of the pet's (first) purchase record, "" when none
BuyerEmail(petId) ==
    LET hits == {a \in 1..Len(purchases) : purchases[a].petId = petId}
    IN IF hits = {} THEN ""
       ELSE purchases[CHOOSE a \in hits : \A b \in hits : a <= b].buyerEmail

\* the recipients of the mails a pass handed over for one pair, in order
RecipientsFor(pass, petName, key) ==
    LET ms == SelectSeq(pass.mails,
                  LAMBDA x : x.petName = petName /\ TypeKey(x.vaccineType) = key)
    IN [j \in 1..Len(ms) |-> ms[j].to]

LinesFor(pass, petId, key, tags) ==
    {n \in 1..Len(pass.console) :
        /\ pass.console[n].tag \in tags
        /\ pass.console[n].pet = petId
        /\ pass.console[n].vaccineType.t = "str"
        /\ TypeKey(pass.console[n].vaccineType) = key}

\* the dispatch of the pair has run to its end
Dispatched(pass, petId, key) ==
    LinesFor(pass, petId, key, {"buyer", "no buyer"}) # {}

\* C5: for a due pair the dispatcher sends one mail to the adopter address
\* of the accepted adoption record, when there is one with an address, and
\* one to the buyer address of the purchase record, when there is one with
\* an address: two mails with both, one with either, none with neither, and
\* no error is raised for the pair.
C5_OneMailPerRecipient ==
    \A p \in 1..Len(passes) : \A n \in 1..Len(pets) : \A k \in Keys :
        LET key == normalizedIntervals[k].key
            a == AcceptedAdopterEmail(pets[n]._id)
            b == BuyerEmail(pets[n]._id)
        IN Dispatched(passes[p], pets[n]._id, key)
           => /\ RecipientsFor(passes[p], pets[n].pet_name, key)
                   = (IF a # "" THEN <<a>> ELSE <<>>) \o (IF b # "" THEN <<b>> ELSE <<>>)
              /\ LinesFor(passes[p], pets[n]._id, key, {"error"}) = {}

\* a pair was dispatched to its adopter and to its buyer
C5_Witness ==
    \E p \in 1..Len(passes) : \E n \in 1..Len(pets) : \E k \in Keys :
        /\ Dispatched(passes[p], pets[n]._id, normalizedIntervals[k].key)
        /\ AcceptedAdopterEmail(pets[n]._id) # ""
        /\ BuyerEmail(pets[n]._id) # ""
        /\ Len(RecipientsFor(passes[p], pets[n].pet_name, normalizedIntervals[k].key)) = 2

\* the pass read the pets: its failure, if any, is not that of the pet query
PetsRead(pass) ==
    /\ pass.pc # "awaitPets"
    /\ ~(pass.pc = "failed" /\ pass.i = 0)

\* C7: the failure of the adoption lookup or of the purchase lookup of one
\* due pair is isolated to that pair: when the pass has ended, every other
\* due pair has been dispatched.
C7_LookupFailureIsolated ==
    \A p \in 1..Len(passes) :
        LET pass == passes[p] IN
        (pass.pc \in {"done", "failed"} /\ PetsRead(pass))
        => \A n \in 1..Len(pass.pets) : \A k \in Keys :
              (/\ IsDue(pass.pets[n], k, pass.tomorrowStr, pass.dayAfterTomorrowStr)
               /\ ~(pass.pc = "failed" /\ n = pass.i /\ k = pass.k))
              => Dispatched(pass, pass.pets[n]._id, normalizedIntervals[k].key)

\* C8: the manual endpoint answers success only when its pass ran without a
\* pass-level failure, and answers failure when the pass failed.
C8_ManualReportsOutcome ==
    \A p \in 1..Len(passes) :
        (passes[p].trigger = "manual" /\ passes[p].response # "none")
        => (passes[p].response = "success" <=> passes[p].pc = "done")

\* what a pass logs for its due pairs from position (n, k) on when nothing
\* fails: per pair the adopter line, then the buyer line
RECURSIVE ExpectedLines(_, _, _)
ExpectedLines(pass, n, k) ==
    IF n > Len(pass.pets) THEN <<>>
    ELSE IF k > Len(normalizedIntervals) THEN ExpectedLines(pass, n + 1, 1)
    ELSE LET id == pass.pets[n]._id
             key == normalizedIntervals[k].key
         IN (IF IsDue(pass.pets[n], k, pass.tomorrowStr, pass.dayAfterTomorrowStr)
             THEN << <<IF AcceptedAdopterEmail(id) # "" THEN "adopter" ELSE "no adopter",
                       id, key>>,
                     <<IF BuyerEmail(id) # "" THEN "buyer" ELSE "no buyer", id, key>> >>
             ELSE <<>>)
            \o ExpectedLines(pass, n, k + 1)

LoggedLines(pass) ==
    [n \in 1..Len(pass.console) |->
        <<pass.console[n].tag, pass.console[n].pet,
          TypeKey(pass.console[n].vaccineType)>>]

IsPrefix(s, t) == Len(s) <= Len(t) /\ s = SubSeq(t, 1, Len(s))

InFlight == {p \in 1..Len(passes) : passes[p].pc \notin {"done", "failed"}}

\* C9 as stated: at most one pass is in flight at any time.
C9_AtMostOneInFlight == Cardinality(InFlight) <= 1

\* C9 amended: the triggers are not mutually exclusive, so passes started by
\* different triggers can be in flight together and take their steps in
\* turn at the awaits of the store queries; each pass by itself still works
\* through its pets and vaccine types in order, whatever the others do: what
\* it has logged is at any time a prefix of, and at its end all of, the
\* lines of its due pairs in pet-by-pet, type-by-type order.
C9_EachPassSequential ==
    \A p \in 1..Len(passes) :
        /\ passes[p].pc # "awaitPets"
             => IsPrefix(LoggedLines(passes[p]), ExpectedLines(passes[p], 1, 1))
        /\ passes[p].pc = "done"
             => LoggedLines(passes[p]) = ExpectedLines(passes[p], 1, 1)

\* a pass started by the manual endpoint has run to its end while the pass
\* started before it is still waiting for its first lookup
C9_Witness ==
    /\ Len(passes) >= 2
    /\ passes[1].pc = "awaitAdoption"
    /\ passes[2].trigger = "manual"
    /\ passes[2].pc = "done"
    /\ passes[2].console # <<>>

\* the mails a pass hands over from position (n, k) on when no lookup fails
RECURSIVE ExpectedMails(_, _, _)
ExpectedMails(pass, n, k) ==
    IF n > Len(pass.pets) THEN <<>>
    ELSE IF k > Len(normalizedIntervals) THEN ExpectedMails(pass, n + 1, 1)
    ELSE LET pet == pass.pets[n]
             key == normalizedIntervals[k].key
             a == AcceptedAdopterEmail(pet._id)
             b == BuyerEmail(pet._id)
         IN (IF IsDue(pet, k, pass.tomorrowStr, pass.dayAfterTomorrowStr)
             THEN (IF a # "" THEN << <<a, pet.pet_name, key>> >> ELSE <<>>)
                  \o (IF b # "" THEN << <<b, pet.pet_name, key>> >> ELSE <<>>)
             ELSE <<>>)
            \o ExpectedMails(pass, n, k + 1)

HandedOver(pass) ==
    [j \in 1..Len(pass.mails) |->
        <<pass.mails[j].to, pass.mails[j].petName, TypeKey(pass.mails[j].vaccineType)>>]

\* C10: a mail transport failure neither aborts the pass nor prevents another
\* send: whatever the transporter answered for any mail, a pass ends as
\* failed only after a store query threw, and a pass that ended normally has
\* handed over the mail of every recipient of every due pair.
C10_MailFailureIsolated ==
    \A p \in 1..Len(passes) :
        /\ passes[p].pc = "failed"
             => /\ passes[p].console # <<>>
                /\ passes[p].console[Len(passes[p].console)].tag = "error"
        /\ passes[p].pc = "done"
             => HandedOver(passes[p]) = ExpectedMails(passes[p], 1, 1)

\* the adopter mail of the first due pair failed; the buyer of that pair and
\* the recipient of a later pair were mailed all the same and the pass ended
\* normally
C10_Witness ==
    \E p \in 1..Len(passes) :
        LET ms == passes[p].mails IN
        /\ passes[p].pc = "done"
        /\ Len(ms) >= 3
        /\ ms[1].status = "failed"
        /\ ms[1].to = "adopter@x"
        /\ ms[2].to = "buyer@x"
        /\ ms[2].vaccineType = ms[1].vaccineType
        /\ ms[3].vaccineType # ms[1].vaccineType \/ ms[3].petName # ms[1].petName

----------------------------------------------------------------------------
\* the reminders a pass has handed to the transporter: recipient, pet,
\* vaccine type and due date of each, in the order of the sends
Reminders(pass) ==
    [j \in 1..Len(pass.mails) |->
        [to |-> pass.mails[j].to,
         petName |-> pass.mails[j].petName,
         vaccineType |-> pass.mails[j].vaccineType,
         vaccineDate |-> pass.mails[j].vaccineDate]]

\* C11: the pass keeps no record of reminders already sent: of the runs of
\* one evaluation day over an unchanged store, any two that have ended have
\* sent the same reminders (recipient, pet, vaccine type, due date), so a
\* second run sends a duplicate to every recipient of the first.
C11_SecondRunDuplicates ==
    \A p \in 1..Len(passes) : \A q \in 1..Len(passes) :
        passes[p].pc = "done" /\ passes[q].pc = "done"
            => Reminders(passes[p]) = Reminders(passes[q])

\* two runs have ended, the first one's mail has been delivered, and the
\* second one has handed over a reminder as well
C11_Witness ==
    /\ Len(passes) = 2
    /\ passes[1].pc = "done"
    /\ passes[2].pc = "done"
    /\ passes[1].mails # <<>>
    /\ passes[1].mails[1].status = "sent"
    /\ passes[2].mails # <<>>
    /\ passes[2].mails[1].to = passes[1].mails[1].to

----------------------------------------------------------------------------
\* C12: dedupeVaccinationsArray drops every entry whose vaccine type is
\* missing (null, absent, empty, or empty after trimming white space): no
\* entry of the output has the empty string as its vaccineType, also when
\* the type of an input entry consists of white space only.
C12_NoEmptyTypeKept ==
    resSent =>
        \A n \in 1..Len(pets[1].vaccinations) :
            String(pets[1].vaccinations[n].vaccineType) # <<>>

----------------------------------------------------------------------------
\* the vaccine type of a stored value has no entry in the interval
\* configuration (compared case-insensitively after trimming)
AbsentFromTable(x) ==
    \A i \in 1..Len(vaccineIntervals) :
        ToLowerCase(vaccineIntervals[i].name) # TypeKey(x)

\* C13: a vaccine type that occurs in a pet's history but has no entry in
\* the interval table never produces a due event, an email or an error:
\* whatever the evaluation day and the dose dates, no line a pass logs and
\* no mail it hands over is about such a type, and no error is logged.
C13_AbsentTypeNeverDue ==
    \A p \in 1..Len(passes) :
        /\ \A j \in 1..Len(passes[p].console) :
              /\ passes[p].console[j].tag # "error"
              /\ ~AbsentFromTable(passes[p].console[j].vaccineType)
        /\ \A j \in 1..Len(passes[p].mails) :
              ~AbsentFromTable(passes[p].mails[j].vaccineType)
        /\ passes[p].pc # "failed"

\* a pass has ended over a pet with a dose of a type absent from the table
\* given 365 days before tomorrow and a dose of a type of the table given
\* the same day: only the latter was flagged
C13_Witness ==
    \E p \in 1..Len(passes) :
        /\ passes[p].pc = "done"
        /\ \E n \in 1..Len(pets[1].vaccinations) :
              LET v == pets[1].vaccinations[n] IN
              /\ AbsentFromTable(v.vaccineType)
              /\ ValidDate(v.date)
              /\ DayOf(v.date) + 365 = today + 1
        /\ Len(passes[p].mails) = 1
        /\ TypeKey(passes[p].mails[1].vaccineType) = RabiesKey
        /\ Flagged(passes[p], pets[1]._id, RabiesKey) = 1

----------------------------------------------------------------------------
\* the adoption requests of a pet that have status 'accepted'
AcceptedOf(petId) ==
    {n \in 1..Len(adoptions) :
        adoptions[n].petId = petId /\ adoptions[n].status = "accepted"}

\* C14: after any sequence of adoption operations (POST /adoption,
\* PUT /adoption/accept/:id, DELETE /adoption/reject/:id) on the requests
\* of one pet, at most one request of the pet has status 'accepted': once
\* every accept request has been answered, accepting A and then B leaves
\* B alone accepted.
C14_AtMostOneAccepted ==
    (\A r \in 1..Len(accepts) : accepts[r].pc = "sent")
        => \A n \in 1..Len(pets) : Cardinality(AcceptedOf(pets[n]._id)) <= 1

====
